---- MODULE Spec2Model ----
\* Resume_Score_Checker: the POST /check-resume endpoint.
\*
\* The repository holds two revisions of the same Express server:
\*   src/server.js          validation of the file, truncation, finally-cleanup
\*   src/unnamed/part_000   the earlier revision
\* Both are modelled; the variable revision says which file the running
\* process was started from.
\*
\* Text is a sequence of lexemes: a lexeme is one character (a backtick, a
\* brace, a digit, ...) or a run of letters that holds no character the code
\* looks at (json, atsScore, ...).
EXTENDS Integers, Sequences, FiniteSets, TLC

\* ------------------------------------------------------------------ bounds
\* Number of requests the server receives (all may be in flight together).
NumRequests == 2
\* Longest string content (in lexemes) of a generated JSON value.
MaxStrLen == 3

\* ------------------------------------------------------------- characters
\* one backtick character
BT == "BACKTICK"
BOM == "\\uFEFF"
SP == " "
NL == "\\n"
Q == "\""
\* String.prototype.trim strips WhiteSpace and LineTerminator; U+FEFF is WhiteSpace.
JsWhiteSpace == {SP, NL, BOM}
\* JSON.parse skips only space, tab, LF, CR between tokens: not U+FEFF.
JsonWhiteSpace == {SP, NL}
Digits == <<"0", "1", "2", "3", "4", "5", "6", "7", "8", "9">>
DigitSet == {Digits[i] : i \in 1..10}
DigitValue(c) == (CHOOSE i \in 1..10 : Digits[i] = c) - 1

\* ------------------------------------------------------- String functions
\* s.replace(/pat/g, ""): every leftmost, non-overlapping occurrence removed,
\* in one pass (text brought together by a removal is not scanned again).
MatchesAt(s, pat, j) ==
    /\ j + Len(pat) - 1 <= Len(s)
    /\ \A k \in 1..Len(pat) : s[j + k - 1] = pat[k]

\* the first occurrence of pat in s at or after i; Len(s) + 1 when there is none
RECURSIVE IndexOf(_, _, _)
IndexOf(s, pat, i) ==
    IF i > Len(s) THEN Len(s) + 1
    ELSE LET next == {j \in i..Len(s) : s[j] = pat[1]} IN
         IF next = {} THEN Len(s) + 1
         ELSE LET j == CHOOSE k \in next : \A m \in next : k <= m IN
              IF MatchesAt(s, pat, j) THEN j ELSE IndexOf(s, pat, j + 1)

\* the scan resumes at i: the text up to the next occurrence is kept, the
\* occurrence is dropped, and the scan resumes after it
RECURSIVE ReplaceFrom(_, _, _)
ReplaceFrom(s, pat, i) ==
    LET j == IndexOf(s, pat, i) IN
    IF j > Len(s) THEN SubSeq(s, i, Len(s))
    ELSE SubSeq(s, i, j - 1) \o ReplaceFrom(s, pat, j + Len(pat))

ReplaceAll(s, pat) == ReplaceFrom(s, pat, 1)

\* s.trim(): from the first to the last character that is not white space
RECURSIVE FirstKept(_, _)
FirstKept(s, i) ==
    IF i <= Len(s) /\ s[i] \in JsWhiteSpace THEN FirstKept(s, i + 1) ELSE i

RECURSIVE LastKept(_, _)
LastKept(s, i) ==
    IF i >= 1 /\ s[i] \in JsWhiteSpace THEN LastKept(s, i - 1) ELSE i

trim(s) == SubSeq(s, FirstKept(s, 1), LastKept(s, Len(s)))

\* s.replace(/^\uFEFF/, "")
StripLeadingBOM(s) == IF s # <<>> /\ Head(s) = BOM THEN Tail(s) ELSE s

\* ------------------------------------------------------------ JSON values
JNull == [null |-> TRUE]
JNum(n) == [num |-> n]
JStr(s) == [str |-> s]
JArr(a) == [arr |-> a]
\* members: a sequence of <<key, value>> in insertion order
JObj(m) == [obj |-> m]
IsNull(v) == "null" \in DOMAIN v
IsNum(v) == "num" \in DOMAIN v
IsStr(v) == "str" \in DOMAIN v
IsArr(v) == "arr" \in DOMAIN v
IsObj(v) == "obj" \in DOMAIN v

HasKey(v, k) == IsObj(v) /\ \E i \in 1..Len(v.obj) : v.obj[i][1] = k
Get(v, k) == v.obj[CHOOSE i \in 1..Len(v.obj) : v.obj[i][1] = k][2]

\* obj[k] = val : a key already present keeps its place and takes the new value
SetMember(m, k, val) ==
    IF \E i \in 1..Len(m) : m[i][1] = k
    THEN [i \in 1..Len(m) |-> IF m[i][1] = k THEN <<k, val>> ELSE m[i]]
    ELSE Append(m, <<k, val>>)

\* ------------------------------------------------------------- JSON.parse
ParseFail == [ok |-> FALSE, val |-> JNull, rest |-> <<>>]
ParseOk(v, rest) == [ok |-> TRUE, val |-> v, rest |-> rest]

RECURSIVE SkipWs(_)
SkipWs(s) == IF s # <<>> /\ Head(s) \in JsonWhiteSpace THEN SkipWs(Tail(s)) ELSE s

\* after the opening quote: the content up to the closing quote. A raw line
\* feed inside a string is a syntax error.
RECURSIVE ParseString(_, _)
ParseString(s, acc) ==
    IF s = <<>> THEN ParseFail
    ELSE IF Head(s) = Q THEN ParseOk(JStr(acc), Tail(s))
    ELSE IF Head(s) = NL THEN ParseFail
    ELSE ParseString(Tail(s), Append(acc, Head(s)))

RECURSIVE ParseDigits(_, _)
ParseDigits(s, n) ==
    IF s # <<>> /\ Head(s) \in DigitSet
    THEN ParseDigits(Tail(s), 10 * n + DigitValue(Head(s)))
    ELSE ParseOk(JNum(n), s)

\* a non-negative integer; no leading zero
ParseNumber(s) ==
    IF Head(s) = "0" /\ Len(s) > 1 /\ s[2] \in DigitSet THEN ParseFail
    ELSE ParseDigits(s, 0)

RECURSIVE ParseValue(_)
RECURSIVE ParseElements(_, _)
RECURSIVE ParseMembers(_, _)

ParseValue(s0) ==
    LET s == SkipWs(s0) IN
    IF s = <<>> THEN ParseFail
    ELSE CASE Head(s) = Q -> ParseString(Tail(s), <<>>)
           [] Head(s) \in DigitSet -> ParseNumber(s)
           [] Head(s) = "null" -> ParseOk(JNull, Tail(s))
           [] Head(s) = "[" ->
                LET t == SkipWs(Tail(s)) IN
                IF t # <<>> /\ Head(t) = "]" THEN ParseOk(JArr(<<>>), Tail(t))
                ELSE ParseElements(t, <<>>)
           [] Head(s) = "{" ->
                LET t == SkipWs(Tail(s)) IN
                IF t # <<>> /\ Head(t) = "}" THEN ParseOk(JObj(<<>>), Tail(t))
                ELSE ParseMembers(t, <<>>)
           [] OTHER -> ParseFail

\* value ("," value)* "]"
ParseElements(s, acc) ==
    LET r == ParseValue(s) IN
    IF ~r.ok THEN ParseFail
    ELSE LET t == SkipWs(r.rest) IN
         IF t = <<>> THEN ParseFail
         ELSE IF Head(t) = "]" THEN ParseOk(JArr(Append(acc, r.val)), Tail(t))
         ELSE IF Head(t) = "," THEN ParseElements(Tail(t), Append(acc, r.val))
         ELSE ParseFail

\* string ":" value ("," string ":" value)* "}"
ParseMembers(s0, acc) ==
    LET s == SkipWs(s0) IN
    IF s = <<>> \/ Head(s) # Q THEN ParseFail
    ELSE LET k == ParseString(Tail(s), <<>>) IN
         IF ~k.ok THEN ParseFail
         ELSE LET c == SkipWs(k.rest) IN
              IF c = <<>> \/ Head(c) # ":" THEN ParseFail
              ELSE LET r == ParseValue(Tail(c)) IN
                   IF ~r.ok THEN ParseFail
                   ELSE LET t == SkipWs(r.rest)
                            m == SetMember(acc, k.val.str, r.val)
                        IN IF t = <<>> THEN ParseFail
                           ELSE IF Head(t) = "}" THEN ParseOk(JObj(m), Tail(t))
                           ELSE IF Head(t) = "," THEN ParseMembers(Tail(t), m)
                           ELSE ParseFail

\* JSON.parse(text): [ok, val]; ok = FALSE is the SyntaxError it throws.
JSONparse(text) ==
    LET r == ParseValue(text) IN
    IF r.ok /\ SkipWs(r.rest) = <<>> THEN [ok |-> TRUE, val |-> r.val]
    ELSE [ok |-> FALSE, val |-> JNull]

\* --------------------------------------------------------- JSON.stringify
RECURSIVE DigitsOf(_)
DigitsOf(n) ==
    IF n < 10 THEN <<Digits[n + 1]>>
    ELSE DigitsOf(n \div 10) \o <<Digits[(n % 10) + 1]>>

RECURSIVE JSONstringify(_)
RECURSIVE StringifyElements(_)
RECURSIVE StringifyMembers(_)

JSONstringify(v) ==
    CASE IsNull(v) -> <<"null">>
      [] IsNum(v) -> DigitsOf(v.num)
      [] IsStr(v) -> <<Q>> \o v.str \o <<Q>>
      [] IsArr(v) -> <<"[">> \o StringifyElements(v.arr) \o <<"]">>
      [] IsObj(v) -> <<"{">> \o StringifyMembers(v.obj) \o <<"}">>

StringifyElements(a) ==
    IF a = <<>> THEN <<>>
    ELSE JSONstringify(Head(a))
         \o (IF Len(a) > 1 THEN <<",">> ELSE <<>>)
         \o StringifyElements(Tail(a))

StringifyMembers(m) ==
    IF m = <<>> THEN <<>>
    ELSE <<Q>> \o Head(m)[1] \o <<Q, ":">> \o JSONstringify(Head(m)[2])
         \o (IF Len(m) > 1 THEN <<",">> ELSE <<>>)
         \o StringifyMembers(Tail(m))

\* ------------------------------------------------- the two source files
SERVER_JS == "src/server.js"
PART_000 == "src/unnamed/part_000"
Revisions == {SERVER_JS, PART_000}

Requests == 1..NumRequests

\* --------------------------------------------------------- request inputs
PDF == "application/pdf"
DOCX == "application/vnd.openxmlformats-officedocument.wordprocessingml.document"
TXT == "text/plain"

\* const MAX_CHARS = 12000;
MAX_CHARS == 12000

MB == 1024 * 1024

\* req.body.jobTitle: "" stands for a missing or empty field (both are falsy)
JobTitles == {"", "Data Engineer"}

\* req.file as multer leaves it; present = FALSE is req.file === undefined.
\* chars is the length of the text the document holds.
NoFile == [present |-> FALSE, mimetype |-> "", size |-> 0, chars |-> 0]
UploadedFile(m, s, c) == [present |-> TRUE, mimetype |-> m, size |-> s, chars |-> c]
Files ==
    { NoFile,
      UploadedFile(PDF, 1 * MB, MAX_CHARS + 1),
      UploadedFile(DOCX, 6 * MB, MAX_CHARS),
      UploadedFile(TXT, 1 * MB, 40) }

\* A text of the resume kind is known by the document it comes from and its
\* length: [doc, len] is the first len characters of document doc.
NoText == [doc |-> 0, len |-> 0]
DocumentText(path, file) == [doc |-> path, len |-> file.chars]
\* text.slice(0, n)
slice(text, n) == [doc |-> text.doc, len |-> IF text.len < n THEN text.len ELSE n]

\* ------------------------------------------------------------------ multer
\* const upload = multer({ dest: "uploads/" }): no limits, no fileFilter:
\* every file of every size and type is stored.
uploadAccepts(file) == TRUE

\* ------------------------------------------------------------ extractText
\* the branch extractText takes on the declared media type
extractText(mimeType) ==
    IF mimeType = PDF THEN "pdfParse"
    ELSE IF mimeType = DOCX THEN "mammoth"
    ELSE "throw"

\* ---------------------------------------------------------- analyzeResume
\* the prompt: the fixed template with jobTitle and resumeText interpolated
NoPrompt == [jobTitle |-> "", resumeText |-> NoText]
analyzeResumePrompt(resumeText, jobTitle) ==
    [jobTitle |-> jobTitle, resumeText |-> resumeText]

\* The output format the template asks the model for.
Feedback(word) == JStr(<<word>>)
Evaluation(prompt, suggestion) ==
    JObj(<< << <<"atsScore">>, JNum(85) >>,
            << <<"roleDetected">>, JStr(<<prompt.jobTitle>>) >>,
            << <<"skills">>,
               JObj(<< << <<"matched">>, JArr(<<JStr(<<"sql">>)>>) >>,
                       << <<"missing">>, JArr(<<>>) >> >>) >>,
            << <<"analysis">>,
               JObj(<< << <<"summary">>,
                          JStr(<<"resume">> \o DigitsOf(prompt.resumeText.doc)
                               \o <<"chars">> \o DigitsOf(prompt.resumeText.len)) >>,
                       << <<"skillsSection">>, Feedback("ok") >>,
                       << <<"experience">>, Feedback("ok") >>,
                       << <<"projects">>, Feedback("ok") >>,
                       << <<"education">>, Feedback("ok") >>,
                       << <<"formatting">>, Feedback("ok") >>,
                       << <<"keywords">>, Feedback("ok") >> >>) >>,
            << <<"suggestions">>, JArr(<<JStr(suggestion)>>) >> >>)

AnalysisFields ==
    {"summary", "skillsSection", "experience", "projects", "education",
     "formatting", "keywords"}

IsStrArr(v) == IsArr(v) /\ \A i \in 1..Len(v.arr) : IsStr(v.arr[i])

\* the documented output format: atsScore an integer 0-100, roleDetected,
\* skills.matched / skills.missing, the seven analysis fields, suggestions
IsEvaluationResponse(v) ==
    /\ IsObj(v)
    /\ \A k \in {"atsScore", "roleDetected", "skills", "analysis", "suggestions"} :
          HasKey(v, <<k>>)
    /\ IsNum(Get(v, <<"atsScore">>))
    /\ Get(v, <<"atsScore">>).num \in 0..100
    /\ IsStr(Get(v, <<"roleDetected">>))
    /\ LET sk == Get(v, <<"skills">>) IN
          /\ HasKey(sk, <<"matched">>) /\ HasKey(sk, <<"missing">>)
          /\ IsStrArr(Get(sk, <<"matched">>)) /\ IsStrArr(Get(sk, <<"missing">>))
    /\ LET an == Get(v, <<"analysis">>) IN
          \A f \in AnalysisFields : HasKey(an, <<f>>) /\ IsStr(Get(an, <<f>>))
    /\ IsStrArr(Get(v, <<"suggestions">>))

FenceJson == <<BT, BT, BT, "json">>
Fence == <<BT, BT, BT>>

\* What model.generateContent may resolve with for a prompt: the evaluation
\* as bare JSON, in a markdown fence, behind a byte-order mark, with a
\* suggestion that quotes a code fence; JSON of another structure; prose.
GeminiReplies(prompt) ==
    LET plain == JSONstringify(Evaluation(prompt, <<"add", SP, "keywords">>))
        quoting == JSONstringify(Evaluation(prompt, <<"use", SP, BT, BT, BT, "code", BT, BT, BT>>))
    IN { plain,
         FenceJson \o <<NL>> \o plain \o <<NL>> \o Fence,
         <<BOM>> \o plain \o <<NL>>,
         quoting,
         JSONstringify(JObj(<< << <<"error">>, JStr(<<"quota">>) >> >>)),
         <<"Sorry", SP, "I", SP, "cannot", SP, "help">> }

\* --------------------------------------------------------- normalization
\* analysis.replace(/```json/g, "").replace(/```/g, "").trim()
CleanOutput(analysis) == trim(ReplaceAll(ReplaceAll(analysis, FenceJson), Fence))

\* a faulty variant of safeParseJSON: the SyntaxError is swallowed and an
\* empty object returned
safeParseJSON_swallowing(str) ==
    LET parsed == JSONparse(StripLeadingBOM(trim(str))) IN
    IF parsed.ok THEN parsed ELSE [ok |-> TRUE, val |-> JObj(<<>>)]

\* src/server.js: JSON.parse(str.trim().replace(/^\uFEFF/, ""))
safeParseJSON(str) == JSONparse(StripLeadingBOM(trim(str)))

\* src/unnamed/part_000: JSON.parse(str)
safeParseJSON_part_000(str) == JSONparse(str)

\* ------------------------------------------------------------- responses
NoResponse == [status |-> 0, body |-> JNull]
ErrorBody(message) == JObj(<< << <<"error">>, JStr(<<message>>) >> >>)
Response(status, body) == [status |-> status, body |-> body]

\* the messages of the errors the handler may catch
MsgNoFile == "Cannot read properties of undefined (reading 'path')"
MsgUnsupported == "Unsupported file type. Upload PDF or DOCX."
MsgExtraction == "bad XRef entry"
MsgGemini == "Gemini API request failed. Check network/API key/model."
MsgParse == "Failed to parse AI response as JSON."
MsgENOENT == "ENOENT: no such file or directory, unlink"

\* ------------------------------------------------------------------ state
VARIABLES
    revision,   \* the source file the server process runs
    pc,         \* per request: where its handler stands
    req,        \* per request: req.body.jobTitle and req.file
    uploads,    \* the paths that exist in uploads/
    filePath,   \* per request: the handler's filePath (0: undefined)
    prompt,     \* per request: the prompt given to model.generateContent
    analysis,   \* per request: the text model.generateContent resolved with
    res,        \* per request: the response sent
    trace,      \* per request: the steps its handler has taken, in order
    fsLog,      \* every read and unlink of a path: <<path, operation, request>>
    value,      \* normalization on its own: the JSON value V
    normalized  \* normalization on its own: what it made of the fenced V

vars == <<revision, pc, req, uploads, filePath, prompt, analysis, res, trace,
          fsLog, value, normalized>>

serverVars == <<pc, req, uploads, filePath, prompt, analysis, res, trace, fsLog>>

NoRequest == [jobTitle |-> "", file |-> NoFile, path |-> 0]
NotNormalized == [done |-> FALSE, ok |-> FALSE, val |-> JNull]

ServerInit ==
    /\ pc = [r \in Requests |-> "idle"]
    /\ req = [r \in Requests |-> NoRequest]
    /\ uploads = {}
    /\ filePath = [r \in Requests |-> 0]
    /\ prompt = [r \in Requests |-> NoPrompt]
    /\ analysis = [r \in Requests |-> <<>>]
    /\ res = [r \in Requests |-> NoResponse]
    /\ trace = [r \in Requests |-> <<>>]
    /\ fsLog = {}

Init ==
    /\ revision \in Revisions
    /\ ServerInit
    /\ value = JNull
    /\ normalized = NotNormalized

\* ------------------------------------------------------ upload.single(...)
\* The multipart body of request r arrives: multer stores the file, if one
\* was sent, under a name of its own in uploads/ (the request's number
\* stands for the random name), sets req.file and req.body, calls the handler.
\* Requests are numbered in the order they arrive.
Upload(r) ==
    /\ pc[r] = "idle"
    /\ \A q \in Requests : q < r => pc[q] # "idle"
    /\ \E jobTitle \in JobTitles, file \in Files :
          /\ uploadAccepts(file)
          /\ req' = [req EXCEPT ![r] =
                        [jobTitle |-> jobTitle, file |-> file,
                         path |-> IF file.present THEN r ELSE 0]]
          /\ uploads' = IF file.present THEN uploads \cup {r} ELSE uploads
    /\ pc' = [pc EXCEPT ![r] = "handler"]
    /\ UNCHANGED <<revision, filePath, prompt, analysis, res, trace, fsLog,
                   value, normalized>>

\* ---------------------------------------------------- how a handler ends
\* src/server.js: the response is sent in try or catch, then finally runs:
\*   if (filePath && fs.existsSync(filePath)) fs.unlinkSync(filePath)
\* fp is the handler's filePath at that point.
ServerEnds(r, fp, steps, response) ==
    LET unlink == fp # 0 /\ fp \in uploads IN
    /\ res' = [res EXCEPT ![r] = response]
    /\ trace' = [trace EXCEPT ![r] =
                    @ \o steps \o <<"respond">>
                      \o (IF unlink THEN <<"unlink">> ELSE <<>>)]
    /\ uploads' = IF unlink THEN uploads \ {fp} ELSE uploads
    /\ fsLog' = IF unlink THEN fsLog \cup {<<fp, "unlink", r>>} ELSE fsLog
    /\ pc' = [pc EXCEPT ![r] = "done"]

\* src/unnamed/part_000: a response sent from the early return or from catch;
\* nothing is unlinked.
Part000Ends(r, steps, response) ==
    /\ res' = [res EXCEPT ![r] = response]
    /\ trace' = [trace EXCEPT ![r] = @ \o steps \o <<"respond">>]
    /\ pc' = [pc EXCEPT ![r] = "done"]
    /\ UNCHANGED <<uploads, fsLog>>

\* the start of extractText on a supported type: the PDF branch reads the
\* file at once (readFileSync) and awaits pdfParse; the DOCX branch awaits
\* mammoth, which reads the file itself.
ExtractionStarts(r, fp, mimeType) ==
    /\ trace' = [trace EXCEPT ![r] =
                    @ \o <<"extractText">>
                      \o (IF extractText(mimeType) = "pdfParse"
                          THEN <<"readFileSync">> ELSE <<>>)]
    /\ fsLog' = IF extractText(mimeType) = "pdfParse"
                THEN fsLog \cup {<<fp, "read", r>>} ELSE fsLog
    /\ pc' = [pc EXCEPT ![r] = "extracting"]
    /\ UNCHANGED <<uploads, res>>

\* ----------------------------------------- src/server.js: the handler
\* From the handler's entry to its first await (or its end).
ServerHandler(r) ==
    /\ revision = SERVER_JS
    /\ pc[r] = "handler"
    /\ LET jobTitle == req[r].jobTitle
           file == req[r].file
       IN IF jobTitle = ""
          THEN /\ ServerEnds(r, 0, <<>>, Response(400, ErrorBody("Job title required")))
               /\ UNCHANGED filePath
          ELSE IF ~file.present
          THEN /\ ServerEnds(r, 0, <<>>,
                     Response(400, ErrorBody("Resume file is required (PDF or DOCX)")))
               /\ UNCHANGED filePath
          ELSE /\ filePath' = [filePath EXCEPT ![r] = req[r].path]
               /\ IF extractText(file.mimetype) = "throw"
                  THEN ServerEnds(r, req[r].path, <<"extractText", "throw">>,
                           Response(500, ErrorBody("Resume analysis failed")))
                  ELSE ExtractionStarts(r, req[r].path, file.mimetype)
    /\ UNCHANGED <<revision, req, prompt, analysis, value, normalized>>

\* await extractText(...) settles: the library rejects (a document it
\* cannot decode, a file it cannot read) or resolves with the text; on the
\* text the handler truncates it and analyzeResume sends the prompt.
ServerExtracted(r) ==
    /\ revision = SERVER_JS
    /\ pc[r] = "extracting"
    /\ LET fp == filePath[r]
           mammothReads == IF extractText(req[r].file.mimetype) = "mammoth"
                           THEN {<<fp, "read", r>>} ELSE {}
           \* pdfParse works on the buffer already read; mammoth needs the file
           readable == extractText(req[r].file.mimetype) = "pdfParse" \/ fp \in uploads
       IN \E ok \in BOOLEAN :
            IF ok /\ readable
            THEN LET resumeText == DocumentText(fp, req[r].file)
                     safeResumeText == slice(resumeText, MAX_CHARS)
                 IN /\ prompt' = [prompt EXCEPT ![r] =
                                     analyzeResumePrompt(safeResumeText, req[r].jobTitle)]
                    /\ trace' = [trace EXCEPT ![r] = @ \o <<"extracted", "generateContent">>]
                    /\ fsLog' = fsLog \cup mammothReads
                    /\ pc' = [pc EXCEPT ![r] = "analyzing"]
                    /\ UNCHANGED <<uploads, res>>
            ELSE /\ ServerEnds(r, fp, <<"throw">>,
                       Response(500, ErrorBody("Resume analysis failed")))
                 /\ UNCHANGED prompt
    /\ UNCHANGED <<revision, req, filePath, analysis, value, normalized>>

\* await model.generateContent(...) settles: it rejects (analyzeResume logs
\* and rethrows) or resolves with the model's text, which the handler
\* cleans, parses and sends.
ServerAnalyzed(r) ==
    /\ revision = SERVER_JS
    /\ pc[r] = "analyzing"
    /\ \/ /\ ServerEnds(r, filePath[r], <<"throw">>,
                Response(500, ErrorBody("Resume analysis failed")))
          /\ UNCHANGED analysis
       \/ \E text \in GeminiReplies(prompt[r]) :
            LET parsed == safeParseJSON(CleanOutput(text)) IN
            /\ analysis' = [analysis EXCEPT ![r] = text]
            /\ IF parsed.ok
               THEN ServerEnds(r, filePath[r], <<"returned", "safeParseJSON">>,
                        Response(200, parsed.val))
               ELSE ServerEnds(r, filePath[r], <<"returned", "safeParseJSON", "throw">>,
                        Response(500, ErrorBody("Resume analysis failed")))
    /\ UNCHANGED <<revision, req, filePath, prompt, value, normalized>>

\* ------------------------------------ src/unnamed/part_000: the handler
Part000Handler(r) ==
    /\ revision = PART_000
    /\ pc[r] = "handler"
    /\ LET jobTitle == req[r].jobTitle
           file == req[r].file
       IN IF jobTitle = ""
          THEN /\ Part000Ends(r, <<>>, Response(400, ErrorBody("Job title required")))
               /\ UNCHANGED filePath
          ELSE IF ~file.present
          \* req.file.path on undefined: a TypeError, caught
          THEN /\ Part000Ends(r, <<"throw">>, Response(500, ErrorBody(MsgNoFile)))
               /\ UNCHANGED filePath
          ELSE /\ filePath' = [filePath EXCEPT ![r] = req[r].path]
               /\ IF extractText(file.mimetype) = "throw"
                  THEN Part000Ends(r, <<"extractText", "throw">>,
                           Response(500, ErrorBody(MsgUnsupported)))
                  ELSE ExtractionStarts(r, req[r].path, file.mimetype)
    /\ UNCHANGED <<revision, req, prompt, analysis, value, normalized>>

Part000Extracted(r) ==
    /\ revision = PART_000
    /\ pc[r] = "extracting"
    /\ LET fp == filePath[r]
           mammothReads == IF extractText(req[r].file.mimetype) = "mammoth"
                           THEN {<<fp, "read", r>>} ELSE {}
           \* pdfParse works on the buffer already read; mammoth needs the file
           readable == extractText(req[r].file.mimetype) = "pdfParse" \/ fp \in uploads
       IN \E ok \in BOOLEAN :
            IF ok /\ readable
            THEN LET resumeText == DocumentText(fp, req[r].file)
                 IN /\ prompt' = [prompt EXCEPT ![r] =
                                     analyzeResumePrompt(resumeText, req[r].jobTitle)]
                    /\ trace' = [trace EXCEPT ![r] = @ \o <<"extracted", "generateContent">>]
                    /\ fsLog' = fsLog \cup mammothReads
                    /\ pc' = [pc EXCEPT ![r] = "analyzing"]
                    /\ UNCHANGED <<uploads, res>>
            ELSE /\ Part000Ends(r, <<"throw">>, Response(500, ErrorBody(MsgExtraction)))
                 /\ UNCHANGED prompt
    /\ UNCHANGED <<revision, req, filePath, analysis, value, normalized>>

\* On a parsed reply: fs.unlinkSync(filePath), then res.json(parsed).
Part000Analyzed(r) ==
    /\ revision = PART_000
    /\ pc[r] = "analyzing"
    /\ \/ /\ Part000Ends(r, <<"throw">>, Response(500, ErrorBody(MsgGemini)))
          /\ UNCHANGED analysis
       \/ \E text \in GeminiReplies(prompt[r]) :
            LET parsed == safeParseJSON_part_000(CleanOutput(text))
                fp == filePath[r]
            IN
            /\ analysis' = [analysis EXCEPT ![r] = text]
            /\ IF ~parsed.ok
               THEN Part000Ends(r, <<"returned", "safeParseJSON", "throw">>,
                        Response(500, ErrorBody(MsgParse)))
               ELSE IF fp \notin uploads
               THEN Part000Ends(r, <<"returned", "safeParseJSON", "throw">>,
                        Response(500, ErrorBody(MsgENOENT)))
               ELSE /\ res' = [res EXCEPT ![r] = Response(200, parsed.val)]
                    /\ trace' = [trace EXCEPT ![r] =
                                    @ \o <<"returned", "safeParseJSON", "unlink", "respond">>]
                    /\ uploads' = uploads \ {fp}
                    /\ fsLog' = fsLog \cup {<<fp, "unlink", r>>}
                    /\ pc' = [pc EXCEPT ![r] = "done"]
    /\ UNCHANGED <<revision, req, filePath, prompt, value, normalized>>

Next ==
    \E r \in Requests :
        \/ Upload(r)
        \/ ServerHandler(r)
        \/ ServerExtracted(r)
        \/ ServerAnalyzed(r)
        \/ Part000Handler(r)
        \/ Part000Extracted(r)
        \/ Part000Analyzed(r)

Spec == Init /\ [][Next]_vars

\* ------------------------------------------- the normalization on its own
\* The JSON values the normalization is tried on.
StrChars == {"a", BT, "json"}
Strs == UNION {[1..n -> StrChars] : n \in 0..MaxStrLen}
JsonValues ==
    {JNull} \cup {JNum(n) : n \in {0, 7, 100}}
    \cup {JStr(s) : s \in Strs}
    \cup {JArr(<<JStr(s)>>) : s \in Strs}
    \cup {JObj(<< << <<"k">>, JStr(s) >> >>) : s \in Strs}

\* JSON.stringify(V) in a code fence (with or without the json tag) behind a
\* byte-order mark
Fenced(v, tagged) ==
    <<BOM>> \o (IF tagged THEN FenceJson ELSE Fence) \o <<NL>>
    \o JSONstringify(v) \o <<NL>> \o Fence

Normalized(parsed) == [done |-> TRUE, ok |-> parsed.ok, val |-> parsed.val]

InitNormalizer ==
    /\ revision \in Revisions
    /\ ServerInit
    /\ value \in JsonValues
    /\ normalized = NotNormalized

\* src/server.js: the cleaning in the handler, then safeParseJSON
ServerNormalize ==
    /\ revision = SERVER_JS
    /\ ~normalized.done
    /\ \E tagged \in BOOLEAN :
          normalized' = Normalized(safeParseJSON(CleanOutput(Fenced(value, tagged))))
    /\ UNCHANGED <<revision, serverVars, value>>

\* src/unnamed/part_000: the cleaning in the handler, then safeParseJSON
Part000Normalize ==
    /\ revision = PART_000
    /\ ~normalized.done
    /\ \E tagged \in BOOLEAN :
          normalized' = Normalized(safeParseJSON_part_000(CleanOutput(Fenced(value, tagged))))
    /\ UNCHANGED <<revision, serverVars, value>>

NextNormalizer == ServerNormalize \/ Part000Normalize

SpecNormalizer == InitNormalizer /\ [][NextNormalizer]_vars

\* ================================================================ claims
Done(r) == pc[r] = "done"
Count(steps, step) == Cardinality({i \in 1..Len(steps) : steps[i] = step})
Took(r, step) == \E i \in 1..Len(trace[r]) : trace[r][i] = step
\* every occurrence of step b in the request's trace has a step a before it
Precedes(r, a, b) ==
    \A i \in 1..Len(trace[r]) :
        trace[r][i] = b => \E j \in 1..(i - 1) : trace[r][j] = a
\* extractText, analyzeResume or safeParseJSON failed
StepFailed(r) ==
    \E i \in 1..Len(trace[r]) :
        trace[r][i] = "throw" /\ \E j \in 1..(i - 1) : trace[r][j] = "extractText"
Valid(r) ==
    /\ req[r].jobTitle # ""
    /\ req[r].file.present
    /\ req[r].file.mimetype \in {PDF, DOCX}
AnalysisFailed == ErrorBody("Resume analysis failed")
FileRequired ==
    {ErrorBody("Resume file required"),
     ErrorBody("Resume file is required (PDF or DOCX)")}
FiveMB == 5 * MB
\* text a is the first a.len characters of text b
IsPrefixOf(a, b) == a.doc = b.doc /\ a.len <= b.len

\* C1: once the handler of a request that uploaded a file has finished, on
\* whatever path (200, 400, 500), the temporary file is absent and was
\* unlinked exactly once.
C1_TempFileRemovedOnEveryPath ==
    \A r \in Requests :
        Done(r) /\ req[r].file.present =>
            /\ req[r].path \notin uploads
            /\ Count(trace[r], "unlink") = 1

\* C2: a request without jobTitle gets 400 "Job title required", a request
\* with jobTitle and no file gets 400 with a file-required error; neither
\* reaches extractText or the model call.
C2_InvalidRequestRejectedWith400 ==
    \A r \in Requests :
        Done(r) =>
            /\ req[r].jobTitle = "" =>
                  /\ res[r] = Response(400, ErrorBody("Job title required"))
                  /\ ~Took(r, "extractText") /\ ~Took(r, "generateContent")
            /\ req[r].jobTitle # "" /\ ~req[r].file.present =>
                  /\ res[r].status = 400 /\ res[r].body \in FileRequired
                  /\ ~Took(r, "extractText") /\ ~Took(r, "generateContent")

\* C3: when extractText, analyzeResume or safeParseJSON fails, the response
\* is 500 with exactly the body {"error": "Resume analysis failed"}.
C3_FailureGivesFixed500 ==
    \A r \in Requests :
        Done(r) /\ StepFailed(r) => res[r] = Response(500, AnalysisFailed)

\* C4: a request with jobTitle and a file whose media type is neither PDF
\* nor DOCX ends in 400 or 500, never calls the model, and its temporary
\* file is absent once it has finished.
C4_UnsupportedTypeRejectedAndCleaned ==
    \A r \in Requests :
        /\ req[r].jobTitle # ""
        /\ req[r].file.present
        /\ req[r].file.mimetype \notin {PDF, DOCX}
        => /\ ~Took(r, "generateContent")
           /\ res[r].status # 200
           /\ Done(r) => res[r].status \in {400, 500} /\ req[r].path \notin uploads

\* C5: for an upload larger than 5 MB there is no text extraction, no model
\* call and no 200 response.
C5_OversizedUploadRejectedAtIntake ==
    \A r \in Requests :
        req[r].file.present /\ req[r].file.size > FiveMB =>
            /\ ~Took(r, "extractText")
            /\ ~Took(r, "generateContent")
            /\ res[r].status # 200

\* C6: the resume text in the prompt sent to the model has at most 12000
\* characters and is a prefix of the extracted text, equal to it when that
\* has at most 12000 characters.
C6_PromptTextTruncated ==
    \A r \in Requests :
        Took(r, "generateContent") =>
            LET extracted == DocumentText(req[r].path, req[r].file)
                embedded == prompt[r].resumeText
            IN /\ embedded.len <= 12000
               /\ IsPrefixOf(embedded, extracted)
               /\ extracted.len <= 12000 => embedded = extracted

\* C7: for every JSON value V, JSON.stringify(V) wrapped in a code fence
\* behind a byte-order mark comes out of the normalization as V.
C7_NormalizerRoundTrip ==
    normalized.done => normalized.ok /\ normalized.val = value

\* C8 as stated: every 200 body has the EvaluationResponse shape (so model
\* output of another structure does not end in a 200).
C8_SuccessBodyHasEvaluationShape ==
    \A r \in Requests : res[r].status = 200 => IsEvaluationResponse(res[r].body)

\* C8 as amended: a 200 body is exactly what JSON.parse makes of the cleaned
\* model output, whatever its structure; a request whose cleaned model output
\* parses ends in that 200, one whose cleaned model output does not parse
\* ends in a 500.
C8_SuccessBodyIsParsedModelOutput ==
    \A r \in Requests :
        /\ res[r].status = 200 => analysis[r] # <<>>
        /\ Done(r) /\ analysis[r] # <<>> =>
              LET parsed == JSONparse(CleanOutput(analysis[r])) IN
              IF parsed.ok
              THEN res[r] = Response(200, parsed.val)
              ELSE res[r].status = 500

\* C8 witness: a finished request answered 200 with JSON that has not the
\* EvaluationResponse shape.
C8_Witness ==
    \E r \in Requests :
        Done(r) /\ res[r].status = 200 /\ ~IsEvaluationResponse(res[r].body)

\* C9: of requests that are all valid and run concurrently, each gets exactly
\* one response, a 200 body is the parse of the model output for its own
\* resume and job title, each temporary file is read and unlinked by its own
\* handler only, and once all have finished no temporary file is left.
C9_ConcurrentRequestsIndependent ==
    (\A r \in Requests : pc[r] # "idle" => Valid(r)) =>
        /\ \A r \in Requests :
              /\ Count(trace[r], "respond") = (IF Done(r) THEN 1 ELSE 0)
              /\ res[r].status = 200 =>
                    /\ prompt[r].jobTitle = req[r].jobTitle
                    /\ prompt[r].resumeText.doc = req[r].path
                    /\ analysis[r] \in GeminiReplies(prompt[r])
                    /\ res[r].body = JSONparse(CleanOutput(analysis[r])).val
        /\ \A a \in fsLog : a[1] = req[a[3]].path
        /\ (\A r \in Requests : Done(r)) => uploads = {}

\* C10: the model is called only after extraction succeeded and at most
\* once, parsing only after the model returned, and the temporary file is
\* unlinked only after the response was sent.
C10_StepsInOrder ==
    \A r \in Requests :
        /\ Precedes(r, "extracted", "generateContent")
        /\ Count(trace[r], "generateContent") <= 1
        /\ Precedes(r, "returned", "safeParseJSON")
        /\ Precedes(r, "respond", "unlink")

\* ------------------------------------------------ src/server.js alone
\* C2, C3, C4, C6, C9 and C10 are broken by src/unnamed/part_000 only: each
\* holds in every state of a server started from src/server.js.
InServerJs ==
    revision = SERVER_JS =>
        /\ C2_InvalidRequestRejectedWith400
        /\ C3_FailureGivesFixed500
        /\ C4_UnsupportedTypeRejectedAndCleaned
        /\ C6_PromptTextTruncated
        /\ C9_ConcurrentRequestsIndependent
        /\ C10_StepsInOrder

====
